---- MODULE Spec2Model ----
(***************************************************************************)
(* Model of the /sounds route of skills-music-api-v2 (src/index.ts): the   *)
(* catalog build generateApi() and the search filter of the route handler. *)
(* Strings are sequences of one-character strings, so that replace, split, *)
(* includes, endsWith and the case conversions are computed as JavaScript  *)
(* computes them.                                                          *)
(***************************************************************************)
EXTENDS Integers, Sequences, FiniteSets, TLC

(* ---------------------------- bounds ---------------------------------- *)
\* longest directory listing explored
MaxFiles == 2
\* number of /sounds requests that may be in flight together
NumReq == 2

Requests == 1..NumReq

(* ------------------------ string literals ------------------------------ *)
Mp3Ext == <<".", "m", "p", "3">>
TxtExt == <<".", "t", "x", "t">>
JpgExt == <<".", "j", "p", "g">>
DescriptionDir == <<".", "/", "a", "s", "s", "e", "t", "s", "/", "d", "e", "s", "c", "r", "i", "p", "t", "i", "o", "n", "/">>
AudioPrefix == <<"/", "a", "u", "d", "i", "o", "/">>
CoverPrefix == <<"/", "c", "o", "v", "e", "r", "/">>
NoSoundsFound == "No sounds found"

(* ------------------- JavaScript string primitives ---------------------- *)
LowerLetters == <<"a","b","c","d","e","f","g","h","i","j","k","l","m",
                  "n","o","p","q","r","s","t","u","v","w","x","y","z">>
UpperLetters == <<"A","B","C","D","E","F","G","H","I","J","K","L","M",
                  "N","O","P","Q","R","S","T","U","V","W","X","Y","Z">>

ToUpper == [c \in {LowerLetters[k] : k \in 1..26} |->
              UpperLetters[CHOOSE k \in 1..26 : LowerLetters[k] = c]]
ToLower == [c \in {UpperLetters[k] : k \in 1..26} |->
              LowerLetters[CHOOSE k \in 1..26 : UpperLetters[k] = c]]

UpperChar(c) == IF c \in DOMAIN ToUpper THEN ToUpper[c] ELSE c

LowerChar(c) == IF c \in DOMAIN ToLower THEN ToLower[c] ELSE c

toLowerCase(s) == [k \in 1..Len(s) |-> LowerChar(s[k])]

\* String.prototype.indexOf, 1-based; 0 when pat does not occur
indexOf(s, pat) ==
  LET hits == {k \in 1..(Len(s) - Len(pat) + 1) : SubSeq(s, k, k + Len(pat) - 1) = pat}
  IN IF hits = {} THEN 0 ELSE CHOOSE k \in hits : \A h \in hits : k <= h

\* String.prototype.replace with a string pattern: first occurrence only
replace(s, pat, rep) ==
  LET k == indexOf(s, pat)
  IN IF k = 0 THEN s
     ELSE SubSeq(s, 1, k - 1) \o rep \o SubSeq(s, k + Len(pat), Len(s))

endsWith(s, suf) ==
  /\ Len(s) >= Len(suf)
  /\ SubSeq(s, Len(s) - Len(suf) + 1, Len(s)) = suf

includes(s, sub) == indexOf(s, sub) > 0

\* String.prototype.split with a one-character separator
RECURSIVE split(_, _)
split(s, c) ==
  LET k == indexOf(s, <<c>>)
  IN IF k = 0 THEN <<s>>
     ELSE <<SubSeq(s, 1, k - 1)>> \o split(SubSeq(s, k + 1, Len(s)), c)

\* Array.prototype.join with a one-character separator
RECURSIVE join(_, _)
join(words, c) ==
  IF Len(words) = 0 THEN <<>>
  ELSE IF Len(words) = 1 THEN words[1]
  ELSE words[1] \o <<c>> \o join(Tail(words), c)

\* word.charAt(0).toUpperCase() + word.slice(1)
capitalize(word) ==
  IF Len(word) = 0 THEN <<>>
  ELSE <<UpperChar(word[1])>> \o SubSeq(word, 2, Len(word))

(* --------------------- the filesystem explored -------------------------- *)
FileABC == <<"a", "_", "b", "_", "c", ".", "m", "p", "3">>
FileOdd == <<"x", ".", "m", "p", "3", "y", ".", "m", "p", "3">>
FileTxt == <<"n", ".", "t", "x", "t">>
FileNames == {FileABC, FileOdd, FileTxt}

\* contents of a description file: two lines, one line, or no file at all
TwoLines == [exists |-> TRUE, text |-> <<"D", "\n", "R", "o", "-", " ", "x">>]
OneLine == [exists |-> TRUE, text |-> <<"D">>]
Missing == [exists |-> FALSE, text |-> <<>>]
FileContents == {TwoLines, OneLine, Missing}

\* the search header of a request: absent, empty, or a term
NoHeader == [present |-> FALSE, value |-> <<>>]
SearchHeaders == {NoHeader,
                  [present |-> TRUE, value |-> <<>>],
                  [present |-> TRUE, value |-> <<"B">>],
                  [present |-> TRUE, value |-> <<"r", "O">>]}

\* the filename with its trailing extension removed
TrailingStem(fileName) == SubSeq(fileName, 1, Len(fileName) - Len(Mp3Ext))

\* the path generateApi opens for an audio file
descriptionPath(fileName) == DescriptionDir \o replace(fileName, Mp3Ext, TxtExt)

\* the path of the description file with the same stem as the audio file
StemPath(fileName) == DescriptionDir \o TrailingStem(fileName) \o TxtExt

AudioNames == {f \in FileNames : endsWith(f, Mp3Ext)}
DescPaths == {descriptionPath(f) : f \in AudioNames} \cup {StemPath(f) : f \in AudioNames}

RECURSIVE SeqsUpTo(_, _)
SeqsUpTo(S, n) ==
  IF n = 0 THEN {<<>>}
  ELSE LET shorter == SeqsUpTo(S, n - 1)
       IN shorter \cup {Append(q, x) : q \in shorter, x \in S}

\* directory listings: distinct names, any order
Listings == {q \in SeqsUpTo(FileNames, MaxFiles) :
               \A i, j \in 1..Len(q) : i # j => q[i] # q[j]}

(* ----------------------------- state ------------------------------------ *)
VARIABLES
  dirOk,            \* ./assets/music exists, so that readdir succeeds
  dirFiles,         \* the names in ./assets/music (none when it is missing)
  descDir,          \* path -> contents, for ./assets/description
  pc,               \* per request: position of the handler
  files,            \* per request: generateApi's `files`
  idx,              \* per request: position of the for-of loop in files
  descriptionFile,  \* per request: path of the Bun.file being read
  sounds,           \* per request: generateApi's local `sounds`
  logged,           \* per request: what the catch block printed
  result,           \* per request: value generateApi resolved with
  search,           \* per request: c.req.header("search")
  resp              \* per request: the response sent

fsVars == <<dirOk, dirFiles, descDir>>
vars == <<dirOk, dirFiles, descDir, pc, files, idx, descriptionFile, sounds,
          logged, result, search, resp>>

NoResp == [status |-> 0, kind |-> "none", sounds |-> <<>>, error |-> ""]

Init ==
  /\ dirOk \in BOOLEAN
  /\ dirFiles \in IF dirOk THEN Listings ELSE {<<>>}
  /\ descDir \in [DescPaths -> FileContents]
  /\ pc = [r \in Requests |-> "idle"]
  /\ files = [r \in Requests |-> <<>>]
  /\ idx = [r \in Requests |-> 0]
  /\ descriptionFile = [r \in Requests |-> <<>>]
  /\ sounds = [r \in Requests |-> <<>>]
  /\ logged = [r \in Requests |-> "nothing"]
  /\ result = [r \in Requests |-> <<>>]
  /\ search = [r \in Requests |-> NoHeader]
  /\ resp = [r \in Requests |-> NoResp]

(* ------------------------- generateApi ---------------------------------- *)
titleNoSplit(fileName) ==
  capitalize(replace(replace(fileName, Mp3Ext, <<>>), <<"_">>, <<" ">>))

title(fileName) ==
  LET words == split(replace(replace(fileName, Mp3Ext, <<>>), <<"_">>, <<" ">>), " ")
  IN join([k \in 1..Len(words) |-> capitalize(words[k])], " ")

cover(fileName) == CoverPrefix \o replace(fileName, Mp3Ext, JpgExt)

\* description.split("\n")[1].split("-") throws when there is no index 1
parses(text) == Len(split(text, "\n")) >= 2

Sound(fileName, text, id) ==
  [id |-> id,
   name |-> title(fileName),
   description |-> split(text, "\n")[1],
   tags |-> split(split(text, "\n")[2], "-"),
   audio |-> AudioPrefix \o fileName,
   cover |-> cover(fileName)]

RECURSIVE builtUpTo(_)
builtUpTo(n) == IF n = 0 THEN 0 ELSE Len(sounds[n]) + builtUpTo(n - 1)

nextIdShared(r) == builtUpTo(NumReq) + 1

nextIdZeroBased(r) == Len(sounds[r])

\* sounds.length + 1
nextId(r) == Len(sounds[r]) + 1

catchResultPartial(partial) == partial

\* the value returned from the catch block
catchResult(partial) == <<>>

inTryLoopOnly(step) == step \in {"text", "tags"}

\* whether an exception thrown at this step is inside the try block
inTry(step) == step \in {"readdir", "text", "tags"}

\* index of the next listing entry at or after k that ends in ".mp3", or 0
nextAudio(listing, k) ==
  LET rest == {i \in k..Len(listing) : endsWith(listing[i], Mp3Ext)}
  IN IF rest = {} THEN 0 ELSE CHOOSE i \in rest : \A j \in rest : i <= j

\* the loop runs synchronously up to the next await (or to the return)
Advance(r, listing, from, built) ==
  LET k == nextAudio(listing, from)
  IN IF k = 0
     THEN /\ pc' = [pc EXCEPT ![r] = "await"]
          /\ idx' = [idx EXCEPT ![r] = Len(listing) + 1]
          /\ result' = [result EXCEPT ![r] = built]
          /\ UNCHANGED descriptionFile
     ELSE /\ pc' = [pc EXCEPT ![r] = "text"]
          /\ idx' = [idx EXCEPT ![r] = k]
          /\ descriptionFile' = [descriptionFile EXCEPT ![r] = descriptionPath(listing[k])]
          /\ UNCHANGED result

\* an exception at `step`: caught and logged, or the request fails
Throw(r, step) ==
  IF inTry(step)
  THEN /\ logged' = [logged EXCEPT ![r] = step]
       /\ result' = [result EXCEPT ![r] = catchResult(sounds[r])]
       /\ pc' = [pc EXCEPT ![r] = "await"]
       /\ UNCHANGED resp
  ELSE /\ resp' = [resp EXCEPT ![r] = [status |-> 500, kind |-> "failure",
                                       sounds |-> <<>>, error |-> step]]
       /\ pc' = [pc EXCEPT ![r] = "done"]
       /\ UNCHANGED <<logged, result>>

\* the handler is entered and generateApi runs up to `await readdir`
Start(r) ==
  /\ pc[r] = "idle"
  /\ pc' = [pc EXCEPT ![r] = "readdir"]
  /\ sounds' = [sounds EXCEPT ![r] = <<>>]
  /\ UNCHANGED <<fsVars, files, idx, descriptionFile, logged, result, search, resp>>

\* readdir settles
ReaddirDone(r) ==
  /\ pc[r] = "readdir"
  /\ IF dirOk
     THEN /\ files' = [files EXCEPT ![r] = dirFiles]
          /\ Advance(r, dirFiles, 1, sounds[r])
          /\ UNCHANGED <<logged, resp>>
     ELSE /\ Throw(r, "readdir")
          /\ UNCHANGED <<files, idx, descriptionFile>>
  /\ UNCHANGED <<fsVars, sounds, search>>

\* descriptionFile.text() settles
TextDone(r) ==
  /\ pc[r] = "text"
  /\ LET content == descDir[descriptionFile[r]]
         fileName == files[r][idx[r]]
     IN IF ~content.exists
        THEN /\ Throw(r, "text")
             /\ UNCHANGED <<sounds, idx, descriptionFile>>
        ELSE IF ~parses(content.text)
        THEN /\ Throw(r, "tags")
             /\ UNCHANGED <<sounds, idx, descriptionFile>>
        ELSE LET built == Append(sounds[r], Sound(fileName, content.text, nextId(r)))
             IN /\ sounds' = [sounds EXCEPT ![r] = built]
                /\ Advance(r, files[r], idx[r] + 1, built)
                /\ UNCHANGED <<logged, resp>>
  /\ UNCHANGED <<fsVars, files, search>>

(* ------------------------ the /sounds handler --------------------------- *)
\* `if (search)`: an absent header and the empty string are both falsy
truthy(header) == header.present /\ Len(header.value) > 0

soundMatchesNameOnly(sound, term) ==
  includes(toLowerCase(sound.name), toLowerCase(term))

soundMatches(sound, term) ==
  \/ includes(toLowerCase(sound.name), toLowerCase(term))
  \/ \E t \in 1..Len(sound.tags) :
       includes(toLowerCase(sound.tags[t]), toLowerCase(term))

filter(list, term) == SelectSeq(list, LAMBDA s : soundMatches(s, term))

jsonSounds(list) == [status |-> 200, kind |-> "array", sounds |-> list, error |-> ""]
jsonError == [status |-> 404, kind |-> "error", sounds |-> <<>>, error |-> NoSoundsFound]

\* `sounds != null` of the unfiltered branch: an array is never null
notNull(list) == TRUE

respond(list, header) ==
  IF truthy(header)
  THEN LET filteredSounds == filter(list, header.value)
       IN IF Len(filteredSounds) > 0 THEN jsonSounds(filteredSounds) ELSE jsonError
  ELSE IF notNull(list) THEN jsonSounds(list) ELSE jsonError

\* `await generateApi()` resumes; the header is read and the response sent
Respond(r) ==
  /\ pc[r] = "await"
  /\ \E h \in SearchHeaders :
       /\ search' = [search EXCEPT ![r] = h]
       /\ resp' = [resp EXCEPT ![r] = respond(result[r], h)]
  /\ pc' = [pc EXCEPT ![r] = "done"]
  /\ UNCHANGED <<fsVars, files, idx, descriptionFile, sounds, logged, result>>

Next ==
  \E r \in Requests : Start(r) \/ ReaddirDone(r) \/ TextDone(r) \/ Respond(r)

Spec == Init /\ [][Next]_vars

TypeOK ==
  /\ \A r \in Requests : pc[r] \in {"idle", "readdir", "text", "await", "done"}
  /\ \A r \in Requests : logged[r] \in {"nothing", "readdir", "text", "tags"}

(* --------------- one request run alone, start to finish ----------------- *)
RECURSIVE buildFrom(_, _, _, _)
buildFrom(listing, desc, k, acc) ==
  IF k > Len(listing) THEN acc
  ELSE IF ~endsWith(listing[k], Mp3Ext) THEN buildFrom(listing, desc, k + 1, acc)
  ELSE LET content == desc[descriptionPath(listing[k])]
       IN IF ~content.exists \/ ~parses(content.text) THEN <<>>
          ELSE buildFrom(listing, desc, k + 1,
                         Append(acc, Sound(listing[k], content.text, Len(acc) + 1)))

generateApi(ok, listing, desc) ==
  IF ok THEN buildFrom(listing, desc, 1, <<>>) ELSE <<>>

soundsRoute(ok, listing, desc, header) == respond(generateApi(ok, listing, desc), header)

(* ----------------------- vocabulary of the claims ----------------------- *)
Done(r) == pc[r] = "done"
Returned(r) == pc[r] \in {"await", "done"}

\* the audio files of a listing, in listing order
audioOf(listing) == SelectSeq(listing, LAMBDA f : endsWith(f, Mp3Ext))

\* the sidecar of an audio file, by stem, has a first and a second line
GoodText(content) ==
  content.exists /\ \E k \in 1..Len(content.text) : content.text[k] = "\n"

\* hay contains needle once both are lower-cased
ContainsCI(hay, needle) ==
  \E k \in 1..(Len(hay) - Len(needle) + 1) :
    \A j \in 1..Len(needle) : LowerChar(hay[k + j - 1]) = LowerChar(needle[j])

Matching(list, term) ==
  SelectSeq(list, LAMBDA s : \/ ContainsCI(s.name, term)
                             \/ \E t \in 1..Len(s.tags) : ContainsCI(s.tags[t], term))

Ids(list) == [k \in 1..Len(list) |-> list[k].id]

(* ------------------------------- C1 ------------------------------------- *)
\* C1: a request without a search header on a directory whose listing has
\* no name ending in ".mp3" is answered 404 {error: "No sounds found"}.
C1_EmptyListingIs404 ==
  \A r \in Requests :
    (Done(r) /\ dirOk /\ audioOf(dirFiles) = <<>> /\ ~search[r].present)
      => resp[r] = jsonError

(* ------------------------------- C2 ------------------------------------- *)
SidecarBroken(f) ==
  /\ ~GoodText(descDir[descriptionPath(f)])
  /\ ~GoodText(descDir[StemPath(f)])

\* C2 (as stated): when the sidecar of some audio file of the listing is
\* missing or has no second line, the request ends in a failure of the
\* framework: neither a JSON array nor the 404 error object.
C2_SidecarFailureEscapes ==
  \A r \in Requests :
    (Done(r) /\ dirOk /\ \E k \in 1..Len(dirFiles) :
        endsWith(dirFiles[k], Mp3Ext) /\ SidecarBroken(dirFiles[k]))
      => resp[r].kind = "failure"

\* C2 (amended): when the description file read for some audio file of the
\* listing is missing or has no second line, the catch block of the build
\* logs the failure and returns the empty list, and the client gets the
\* response of an empty catalog: 200 [] without a search term, 404 with one.
C2_SidecarFailureCaught ==
  \A r \in Requests :
    (Done(r) /\ dirOk /\ \E k \in 1..Len(dirFiles) :
        endsWith(dirFiles[k], Mp3Ext) /\ ~GoodText(descDir[descriptionPath(dirFiles[k])]))
      => /\ logged[r] \in {"text", "tags"}
         /\ result[r] = <<>>
         /\ resp[r] = IF truthy(search[r]) THEN jsonError ELSE jsonSounds(<<>>)

C2_Witness ==
  \E r \in Requests :
    /\ Done(r)
    /\ logged[r] = "tags"
    /\ Len(sounds[r]) = 1
    /\ resp[r] = jsonSounds(<<>>)

(* ------------------------------- C3 ------------------------------------- *)
\* C3 (as stated): the entry built for a_b_c.mp3 is named "A b_c".
C3_OnlyFirstCharUpper ==
  \A r \in Requests : \A i \in 1..Len(sounds[r]) :
    audioOf(files[r])[i] = FileABC => sounds[r][i].name = <<"A", " ", "b", "_", "c">>

FirstUnderscore(s) ==
  CHOOSE k \in 1..Len(s) : s[k] = "_" /\ \A j \in 1..(k - 1) : s[j] # "_"

\* C3 (amended): only the first underscore of the stem becomes a space, and
\* each of the two words it separates is capitalized: a_b_c.mp3 is named
\* "A B_c".
C3_TwoWordsCapitalized ==
  \A r \in Requests : \A i \in 1..Len(sounds[r]) :
    LET f == audioOf(files[r])[i]
        stem == TrailingStem(f)
    IN ((\E k \in 1..Len(stem) : stem[k] = "_") /\ indexOf(stem, Mp3Ext) = 0
         /\ \A k \in 1..Len(stem) : stem[k] # " ")
       => LET u == FirstUnderscore(stem)
          IN /\ sounds[r][i].name =
                  capitalize(SubSeq(stem, 1, u - 1)) \o <<" ">>
                    \o capitalize(SubSeq(stem, u + 1, Len(stem)))
             /\ f = FileABC => sounds[r][i].name = <<"A", " ", "B", "_", "c">>

C3_Witness ==
  \E r \in Requests : \E i \in 1..Len(sounds[r]) :
    /\ audioOf(files[r])[i] = FileABC
    /\ sounds[r][i].name = <<"A", " ", "B", "_", "c">>

(* ------------------------------- C4 ------------------------------------- *)
\* C4 (as stated): in every 200 response, filtered or not, the ids of the
\* returned entries are 1, 2, ..., k.
C4_IdsContiguous ==
  \A r \in Requests :
    (Done(r) /\ resp[r].status = 200)
      => Ids(resp[r].sounds) = [k \in 1..Len(resp[r].sounds) |-> k]

\* C4 (amended): in every 200 response the returned entries carry the ids
\* given at build time (position among the enumerated audio files), in
\* increasing order; they are 1, 2, ..., k when no search term is given,
\* and may have gaps when one is.
C4_IdsFromBuild ==
  \A r \in Requests :
    (Done(r) /\ resp[r].status = 200)
      => LET out == resp[r].sounds
         IN /\ \A i \in 1..Len(out) :
                 /\ out[i].id \in 1..Len(audioOf(files[r]))
                 /\ out[i].audio = AudioPrefix \o audioOf(files[r])[out[i].id]
            /\ \A i, j \in 1..Len(out) : i < j => out[i].id < out[j].id
            /\ ~truthy(search[r]) => Ids(out) = [k \in 1..Len(out) |-> k]

C4_Witness ==
  \E r \in Requests :
    /\ Done(r)
    /\ resp[r].status = 200
    /\ truthy(search[r])
    /\ Ids(resp[r].sounds) = <<2>>

(* ------------------------------- C5 ------------------------------------- *)
\* C5: with a non-empty search term the entries returned are exactly the
\* built entries whose name or one of whose tags contains the term, case
\* ignored, in build order; without a term all built entries are returned.
C5_FilterExact ==
  \A r \in Requests :
    Done(r) =>
      IF search[r].present /\ search[r].value # <<>>
      THEN /\ resp[r].sounds = Matching(result[r], search[r].value)
           /\ resp[r].kind = IF resp[r].sounds = <<>> THEN "error" ELSE "array"
      ELSE resp[r] = jsonSounds(result[r])

C5_Witness ==
  \E r \in Requests :
    /\ Done(r)
    /\ search[r].value = <<"r", "O">>
    /\ Len(result[r]) = 2
    /\ Len(resp[r].sounds) = 2
    /\ ~ContainsCI(resp[r].sounds[1].name, search[r].value)

(* ------------------------------- C6 ------------------------------------- *)
\* C6: a search that matches no entry of a non-empty catalog gets the same
\* status and body as a request without a search term on an empty catalog.
C6_NoMatchLikeEmptyCatalog ==
  \A r \in Requests :
    (Done(r) /\ truthy(search[r]) /\ result[r] # <<>>
       /\ Matching(result[r], search[r].value) = <<>>)
      => resp[r] = soundsRoute(TRUE, <<>>, descDir, NoHeader)

(* ------------------------------- C7 ------------------------------------- *)
\* C7: when readdir fails the build returns the empty list, nothing reaches
\* the handler as an error, and the response is the one an existing
\* directory without audio files gets for the same search header.
C7_DirFailureLikeNoAudio ==
  \A r \in Requests :
    (Returned(r) /\ ~dirOk)
      => /\ logged[r] = "readdir"
         /\ result[r] = <<>>
         /\ Done(r) => \A L \in Listings :
              audioOf(L) = <<>> => resp[r] = soundsRoute(TRUE, L, descDir, search[r])

C7_Witness ==
  \E r \in Requests :
    /\ Done(r)
    /\ ~dirOk
    /\ truthy(search[r])
    /\ resp[r] = jsonError

(* ------------------------------- C8 ------------------------------------- *)
\* C8: on an unchanging filesystem every request, however its awaits
\* interleave with those of other requests, resolves its build to and
\* answers with what it would if run alone.
C8_AsIfAlone ==
  LET alone == generateApi(dirOk, dirFiles, descDir)
  IN \A r \in Requests :
       /\ Returned(r) => result[r] = alone
       /\ Done(r) => resp[r] = respond(alone, search[r])

C8_Witness ==
  \E r, q \in Requests :
    /\ r # q
    /\ Done(r)
    /\ Len(resp[r].sounds) = 2
    /\ pc[q] = "text"
    /\ Len(sounds[q]) = 1

(* ------------------------------- C9 ------------------------------------- *)
\* C9: when every audio file of the listing has a sidecar (same stem,
\* ".txt") with at least two lines, the build returns one entry per audio
\* file, in listing order, the i-th with id i, description line 0, tags
\* line 1 split on "-", and audio "/audio/" + filename.
C9_OneEntryPerAudioFile ==
  \A r \in Requests :
    (Returned(r) /\ dirOk
       /\ \A k \in 1..Len(dirFiles) :
            endsWith(dirFiles[k], Mp3Ext) => GoodText(descDir[StemPath(dirFiles[k])]))
      => LET a == audioOf(dirFiles)
         IN /\ Len(result[r]) = Len(a)
            /\ \A i \in 1..Len(a) :
                 LET lines == split(descDir[StemPath(a[i])].text, "\n")
                 IN /\ result[r][i].id = i
                    /\ result[r][i].description = lines[1]
                    /\ result[r][i].tags = split(lines[2], "-")
                    /\ result[r][i].audio = AudioPrefix \o a[i]

(* ------------------------------- C10 ------------------------------------ *)
\* C10: for every audio file, also one with ".mp3" inside its name, the
\* sidecar path and the cover link are built from the filename without
\* its trailing ".mp3".
C10_TrailingExtensionRemoved ==
  \A r \in Requests :
    /\ pc[r] = "text" => descriptionFile[r] = StemPath(files[r][idx[r]])
    /\ \A i \in 1..Len(sounds[r]) :
         sounds[r][i].cover = CoverPrefix \o TrailingStem(audioOf(files[r])[i]) \o JpgExt

====
